---- MODULE Spec2Model ----
(***************************************************************************)
(* Room / presence coordination of the RealTime chat backend.             *)
(*                                                                         *)
(* The module models the connection-registry chat service                 *)
(* (src/unnamed/part_001, lines 1-107: map connectedUsers), the Socket.IO *)
(* adapter rooms it relies on, the Meeting Store behind MeetingDAO and    *)
(* the HTTP meeting routes that write to the same store.                  *)
(*                                                                         *)
(* Node runs every handler to completion; the only suspension point of    *)
(* the service is the `await meetingDAO.getMeetingById` of join-meeting,  *)
(* so a join is two steps (JoinStart, JoinResume) and every other handler *)
(* is one step.  The status update requested by the disconnect handler is *)
(* not awaited: it is in flight until UpdateApply.                        *)
(*                                                                         *)
(* Socket.IO behaviour the handlers depend on:                            *)
(*  - socket.join / socket.leave add and remove the socket id in the      *)
(*    adapter room, whether or not the socket is still connected;         *)
(*  - on a disconnect the socket is taken out of all its rooms before the *)
(*    'disconnect' handler runs;                                          *)
(*  - an emit reaches the connected sockets of the room only.             *)
(*                                                                         *)
(* A connection stands for one client session: all its join-meeting       *)
(* payloads carry the same userId and name (userOf).  A connection that   *)
(* has disconnected never comes back; a reconnection is a new socket id.  *)
(***************************************************************************)
EXTENDS Integers, Sequences, FiniteSets

\* ---- bounds ----
NConns == 2          \* connections (socket ids) 1..NConns
NMeetings == 2       \* meeting ids 1..NMeetings
NUsers == 2          \* user ids 1..NUsers
MaxPending == 1      \* joins awaiting the store at the same time
MaxRacing == 2       \* the same, in the joins-only scenario (SpecJoins)
MaxInflight == 1     \* unawaited status updates in flight per meeting

Conns == 1..NConns
Meetings == 1..NMeetings
Users == 1..NUsers

\* What a join-meeting payload can carry as identity: a user, or 0 when the
\* payload has no userId and no name (both destructure to undefined).
Identities == {0} \cup Users

VARIABLES
  userOf,          \* the userId each connection's client sends in join-meeting
  store,           \* Meeting Store: meeting id -> "absent" | "active" | "ended"
  connected,       \* sockets whose connection is open
  connectedUsers,  \* Map socket.id -> {userId, name, meetingId}
  rooms,           \* io.sockets.adapter.rooms: meeting id -> set of socket ids
  pending,         \* join-meeting handlers suspended at the await
  pendingEnd,      \* updateMeetingStatus(m, 'ended') calls not yet applied
  out,             \* what the last step emitted or requested, in order
  last,            \* the last step: operation and connection
  tokenOf,         \* token service: socket.handshake.auth.token of each connection
  participantsByMeeting, \* token service: Map meetingId -> [{id, name}]
  meetingKeys      \* token service: the keys of that Map in insertion order

vars == <<userOf, store, connected, connectedUsers, rooms, pending, pendingEnd, out, last,
          tokenOf, participantsByMeeting, meetingKeys>>

\* the list field of an emission that carries no participants list
NoList == [k \in {} |-> 0]

\* The display name sent with a userId (data.name of the join payload).
NameOf(u) == IF u \in Users THEN 100 + u ELSE 0

\* One emission: event name, the connections it is delivered to, payload.
Emit(ev, to, m, u, n, l) ==
  [ev |-> ev, to |-> to, meetingId |-> m, userId |-> u, name |-> n, list |-> l]

\* The handler that ran last (connection 0: not a socket handler).
Step(op, c) == [op |-> op, conn |-> c]

\* Variant of RoomSockets that also delivers to ids whose socket has closed.
RoomSocketsStale(rm, conn, m) == rm[m]

\* io.to(room) / socket.to(room): the sockets of the room that are still
\* connected (the adapter skips ids without a live socket).
RoomSockets(rm, conn, m) == rm[m] \cap conn

\* Variant of MapSet that loses the write.
MapSetDropped(map, k, v) == map

\* connectedUsers.set(key, value)
MapSet(map, k, v) == [x \in (DOMAIN map) \cup {k} |-> IF x = k THEN v ELSE map[x]]

\* Variant of MapDelete that clears the map.
MapDeleteAll(map, k) == [x \in {} |-> 0]

\* connectedUsers.delete(key)
MapDelete(map, k) == [x \in (DOMAIN map) \ {k} |-> map[x]]

\* Variants of AlreadyJoined with a slip in the comparison: the name field
\* compared with the userId; the userId not compared at all.
AlreadyJoinedWrongField(map, u, m) ==
  \E k \in DOMAIN map : map[k].name = u /\ map[k].meetingId = m

AlreadyJoinedAnyUser(map, u, m) ==
  \E k \in DOMAIN map : map[k].meetingId = m

\* Array.from(connectedUsers.values()).some(u => u.userId === userId && u.meetingId === meetingId)
AlreadyJoined(map, u, m) ==
  \E k \in DOMAIN map : map[k].userId = u /\ map[k].meetingId = m

\* Variant of Participants that forgets the filter on the meeting.
ParticipantsUnfiltered(map, m) ==
  [k \in DOMAIN map |-> [userId |-> map[k].userId, name |-> map[k].name]]

\* Array.from(connectedUsers.values()).filter(u => u.meetingId === meetingId).map(...)
\* one element per registry entry of the meeting, indexed by the entry's key
\* (the order of the array is not modelled, its multiplicity is).
Participants(map, m) ==
  [k \in {x \in DOMAIN map : map[x].meetingId = m} |->
      [userId |-> map[k].userId, name |-> map[k].name]]

\* socket.handshake.auth.token as the token service sees it: absent, not
\* verifiable with the secret, or signed with a payload.  A signed payload
\* is either {user: {id, name}} (wrapped) or {id, name} itself; id or name 0
\* stands for a field the payload does not carry.
Token(kind, wrapped, id, name) ==
  [kind |-> kind, wrapped |-> wrapped, id |-> id, name |-> name]

\* a handshake without auth.token
NoToken == Token("missing", FALSE, 0, 0)

\* The handshake tokens clients present.
Tokens ==
  {NoToken, Token("forged", FALSE, 1, NameOf(1))}
    \cup {Token("signed", FALSE, u, NameOf(u)) : u \in Users}
    \cup {Token("signed", TRUE, 1, NameOf(1)),
          Token("signed", FALSE, 0, NameOf(1)),
          Token("signed", FALSE, 1, 0)}

\* The server has accepted NConns connections; nothing else has happened.
Start ==
  /\ store = [m \in Meetings |-> "absent"]
  /\ connected = Conns
  /\ connectedUsers = [k \in {} |-> 0]
  /\ rooms = [m \in Meetings |-> {}]
  /\ pending = {}
  /\ pendingEnd = [m \in Meetings |-> 0]
  /\ out = <<>>
  /\ last = Step("init", 0)
  /\ tokenOf = [c \in Conns |-> NoToken]
  /\ participantsByMeeting = [k \in {} |-> <<>>]
  /\ meetingKeys = <<>>

\* Connections belong to the users in turn.
Init ==
  /\ userOf = [c \in Conns |-> ((c - 1) % NUsers) + 1]
  /\ Start

\* Any assignment of users to connections (several tabs of one user included).
InitJoins ==
  /\ userOf \in [Conns -> Users]
  /\ Start

\* Clients whose join-meeting payload may lack the identity fields.
InitPayload ==
  /\ userOf \in [Conns -> Identities]
  /\ Start

\* MeetingDAO.getMeetingById: null ("absent") when the document does not
\* exist, otherwise the meeting with its status.
GetMeetingById(st, m) == st[m]

\* Variant of MeetingUsable that tests the status only against 'ended'.
MeetingNotEnded(meeting) == meeting # "ended"

\* The negation of `!meeting || meeting.status !== 'active'`.  The value the
\* query returned does not change while the handler is suspended, so the
\* test is recorded with the suspended handler.
MeetingUsable(meeting) == meeting # "absent" /\ meeting = "active"

\* join-meeting up to the await: the store query is issued and answered.
JoinStart(c, m, cap) ==
  /\ c \in connected
  /\ Cardinality(pending) < cap
  /\ LET p == [conn |-> c, meetingId |-> m, active |-> MeetingUsable(GetMeetingById(store, m))]
     IN /\ p \notin pending
        /\ pending' = pending \cup {p}
  /\ out' = <<>>
  /\ last' = Step("join-start", c)
  /\ UNCHANGED <<tokenOf, participantsByMeeting, meetingKeys, userOf, store, connected, connectedUsers, rooms, pendingEnd>>

\* join-meeting after the await.
JoinResume(c, m, active) ==
  LET p == [conn |-> c, meetingId |-> m, active |-> active]
      u == userOf[c]
      n == NameOf(u)
      me == {c} \cap connected
  IN
  /\ p \in pending
  /\ pending' = pending \ {p}
  /\ last' = Step("join", c)
  /\ UNCHANGED <<tokenOf, participantsByMeeting, meetingKeys, userOf, store, connected, pendingEnd>>
  /\ IF ~active
       THEN /\ out' = <<Emit("error", me, 0, 0, 0, NoList)>>
            /\ UNCHANGED <<connectedUsers, rooms>>
     ELSE
       LET rooms1 == [rooms EXCEPT ![m] = @ \cup {c}]
           already == AlreadyJoined(connectedUsers, u, m)
           map1 == IF already THEN connectedUsers
                   ELSE MapSet(connectedUsers, c, [userId |-> u, name |-> n, meetingId |-> m])
           bcast == IF already THEN <<>>
                    ELSE <<Emit("user-joined", RoomSockets(rooms1, connected, m), m, u, n, NoList)>>
       IN
       /\ rooms' = rooms1
       /\ connectedUsers' = map1
       /\ out' = bcast \o
                 << Emit("participants-list", me, m, 0, 0, Participants(map1, m)),
                    Emit("joined", me, m, 0, 0, NoList) >>

\* join-meeting when the store query rejects: the await throws inside the
\* async handler, which has no try/catch, so the handler ends there.  Nothing
\* after line 30 runs and nothing is emitted (the rejection goes to the
\* runtime's unhandled-rejection hook, not to the socket).
JoinLookupFails(c, m) ==
  /\ c \in connected
  /\ out' = <<>>
  /\ last' = Step("join-failed", c)
  /\ UNCHANGED <<tokenOf, participantsByMeeting, meetingKeys, userOf, store, connected,
                 connectedUsers, rooms, pending, pendingEnd>>

\* Variant of SendMessage that relays only for a sender registered in the
\* meeting and answers any other sender with 'error'.
SendMessageMembersOnly(c, m) ==
  /\ c \in connected
  /\ out' = IF c \in DOMAIN connectedUsers /\ connectedUsers[c].meetingId = m
            THEN <<Emit("receive-message", RoomSockets(rooms, connected, m) \ {c}, m, 0, 0, NoList)>>
            ELSE <<Emit("error", {c}, 0, 0, 0, NoList)>>
  /\ last' = Step("send-message", c)
  /\ UNCHANGED <<tokenOf, participantsByMeeting, meetingKeys, userOf, store, connected,
                 connectedUsers, rooms, pending, pendingEnd>>

\* send-message
SendMessage(c, m) ==
  /\ c \in connected
  /\ out' = <<Emit("receive-message", RoomSockets(rooms, connected, m) \ {c}, m, 0, 0, NoList)>>
  /\ last' = Step("send-message", c)
  /\ UNCHANGED <<tokenOf, participantsByMeeting, meetingKeys, userOf, store, connected, connectedUsers, rooms, pending, pendingEnd>>

\* leave-meeting
LeaveMeeting(c, m) ==
  /\ c \in connected
  /\ rooms' = [rooms EXCEPT ![m] = @ \ {c}]
  /\ out' = <<>>
  /\ last' = Step("leave-meeting", c)
  /\ UNCHANGED <<tokenOf, participantsByMeeting, meetingKeys, userOf, store, connected, connectedUsers, pending, pendingEnd>>

\* Variant of EndMeeting that notifies with socket.to (the sender is left out)
\* instead of io.to.
EndMeetingToOthers(c, m) ==
  /\ c \in connected
  /\ out' = <<Emit("meeting-ended", RoomSockets(rooms, connected, m) \ {c}, m, 0, 0, NoList)>>
  /\ last' = Step("end-meeting", c)
  /\ UNCHANGED <<tokenOf, participantsByMeeting, meetingKeys, userOf, store, connected,
                 connectedUsers, rooms, pending, pendingEnd>>

\* end-meeting
EndMeeting(c, m) ==
  /\ c \in connected
  /\ out' = <<Emit("meeting-ended", RoomSockets(rooms, connected, m), m, 0, 0, NoList)>>
  /\ last' = Step("end-meeting", c)
  /\ UNCHANGED <<tokenOf, participantsByMeeting, meetingKeys, userOf, store, connected, connectedUsers, rooms, pending, pendingEnd>>

\* disconnect: Socket.IO has removed the socket from all its rooms before
\* the handler runs.
Disconnect(c) ==
  LET conn1 == connected \ {c}
      rooms1 == [m \in Meetings |-> rooms[m] \ {c}]
  IN
  /\ c \in connected
  /\ connected' = conn1
  /\ rooms' = rooms1
  /\ UNCHANGED <<tokenOf, participantsByMeeting, meetingKeys, userOf, store, pending>>
  /\ IF c \in DOMAIN connectedUsers
       THEN LET m == connectedUsers[c].meetingId
                u == connectedUsers[c].userId
                empty == rooms1[m] = {}
            IN
            /\ empty => pendingEnd[m] < MaxInflight
            /\ connectedUsers' = MapDelete(connectedUsers, c)
            /\ pendingEnd' = IF empty THEN [pendingEnd EXCEPT ![m] = @ + 1] ELSE pendingEnd
            /\ out' = <<Emit("user-left", RoomSockets(rooms1, conn1, m), m, u, 0, NoList)>> \o
                      (IF empty THEN <<Emit("updateMeetingStatus", {}, m, 0, 0, NoList)>> ELSE <<>>)
            /\ last' = Step("disconnect", c)
       ELSE /\ out' = <<>>
            /\ last' = Step("disconnect", c)
            /\ UNCHANGED <<connectedUsers, pendingEnd>>

\* Variant of UpdateMeetingStatus whose write lands even when the call fails.
UpdateMeetingStatusAlways(st, m, ok) == [st EXCEPT ![m] = "ended"]

\* MeetingDAO.updateMeetingStatus(id, 'ended'): the write of the document;
\* it fails when the document does not exist or the store is unavailable.
UpdateMeetingStatus(st, m, ok) ==
  IF ok /\ st[m] # "absent" THEN [st EXCEPT ![m] = "ended"] ELSE st

\* The status update requested by a disconnect reaches the store; a failure
\* is caught and logged.
UpdateApply(m, ok) ==
  /\ pendingEnd[m] > 0
  /\ pendingEnd' = [pendingEnd EXCEPT ![m] = @ - 1]
  /\ store' = UpdateMeetingStatus(store, m, ok)
  /\ out' = <<>>
  /\ last' = Step(IF ok /\ store[m] # "absent" THEN "update-done" ELSE "update-failed", 0)
  /\ UNCHANGED <<tokenOf, participantsByMeeting, meetingKeys, userOf, connected, connectedUsers, rooms, pending>>

\* Variant of HttpCreateMeeting that may store the new meeting under the id
\* of an ended one.
HttpCreateMeetingReusingId(m) ==
  /\ store[m] # "active"
  /\ store' = [store EXCEPT ![m] = "active"]
  /\ out' = <<Emit("http", {}, m, 0, 201, NoList)>>
  /\ last' = Step("http-create", 0)
  /\ UNCHANGED <<tokenOf, participantsByMeeting, meetingKeys, userOf, connected,
                 connectedUsers, rooms, pending, pendingEnd>>

\* POST /meetings: MeetingDAO.createMeeting stores a new document with
\* status 'active' under an id not used before.
HttpCreateMeeting(m) ==
  /\ store[m] = "absent"
  /\ \A x \in Meetings : x < m => store[x] # "absent"
  /\ store' = [store EXCEPT ![m] = "active"]
  /\ out' = <<Emit("http", {}, m, 0, 201, NoList)>>
  /\ last' = Step("http-create", 0)
  /\ UNCHANGED <<tokenOf, participantsByMeeting, meetingKeys, userOf, connected, connectedUsers, rooms, pending, pendingEnd>>

\* PUT /meetings/:id/end
HttpEndMeeting(m, ok) ==
  /\ store' = UpdateMeetingStatus(store, m, ok)
  /\ out' = <<Emit("http", {}, m, 0, IF ok /\ store[m] # "absent" THEN 200 ELSE 500, NoList)>>
  /\ last' = Step("http-end", 0)
  /\ UNCHANGED <<tokenOf, participantsByMeeting, meetingKeys, userOf, connected, connectedUsers, rooms, pending, pendingEnd>>

Next ==
  \/ \E c \in Conns, m \in Meetings : JoinStart(c, m, MaxPending)
  \/ \E c \in Conns, m \in Meetings, a \in BOOLEAN : JoinResume(c, m, a)
  \/ \E c \in Conns, m \in Meetings : JoinLookupFails(c, m)
  \/ \E c \in Conns, m \in Meetings : SendMessage(c, m)
  \/ \E c \in Conns, m \in Meetings : LeaveMeeting(c, m)
  \/ \E c \in Conns, m \in Meetings : EndMeeting(c, m)
  \/ \E c \in Conns : Disconnect(c)
  \/ \E m \in Meetings, ok \in BOOLEAN : UpdateApply(m, ok)
  \/ \E m \in Meetings : HttpCreateMeeting(m)
  \/ \E m \in Meetings, ok \in BOOLEAN : HttpEndMeeting(m, ok)

Spec == Init /\ [][Next]_vars

\* Joins only: meetings are created and connections join them; nobody
\* leaves, disconnects or ends a meeting.
NextJoins ==
  \/ \E c \in Conns, m \in Meetings : JoinStart(c, m, MaxRacing)
  \/ \E c \in Conns, m \in Meetings, a \in BOOLEAN : JoinResume(c, m, a)
  \/ \E m \in Meetings : HttpCreateMeeting(m)

SpecJoins == InitJoins /\ [][NextJoins]_vars

\* The whole service with any assignment of users to connections (several
\* tabs of one user included).
SpecTabs == InitJoins /\ [][Next]_vars

\* The join scenarios with payloads that may carry no identity.
SpecPayload == InitPayload /\ [][NextJoins]_vars

\* ---- the HTTP routes with their middleware ----

\* What a request presents in its Authorization header: nothing, a bearer
\* token that jwt.verify rejects, a verified token whose payload has a
\* userId, a verified token whose payload has none.
HttpTokens == {"none", "forged", "signed", "signed-nouser"}

\* Variant of AuthenticateToken that answers 401 to every failure.
AuthenticateTokenOnly401(tok) ==
  IF tok \in {"none", "forged"} THEN 401 ELSE 0

\* authenticateToken: the status it responds with, or 0 when it calls next().
AuthenticateToken(tok) ==
  IF tok = "none" THEN 401
  ELSE IF tok = "forged" THEN 403
  ELSE 0

\* A response that leaves the server state as it is.
HttpRespond(op, m, status) ==
  /\ out' = <<Emit("http", {}, m, 0, status, NoList)>>
  /\ last' = Step(op, 0)
  /\ UNCHANGED <<tokenOf, participantsByMeeting, meetingKeys, userOf, store, connected,
                 connectedUsers, rooms, pending, pendingEnd>>

\* POST /meetings behind authenticateToken; ok = FALSE: createMeeting throws.
PostMeetings(tok, m, ok) ==
  IF AuthenticateToken(tok) # 0 THEN HttpRespond("http-create", 0, AuthenticateToken(tok))
  ELSE IF tok = "signed-nouser" THEN HttpRespond("http-create", 0, 401)
  ELSE IF ~ok THEN HttpRespond("http-create", 0, 500)
  ELSE HttpCreateMeeting(m)

\* GET /meetings/:id behind authenticateToken; ok = FALSE: getMeetingById
\* throws.
GetMeeting(tok, m, ok) ==
  IF AuthenticateToken(tok) # 0 THEN HttpRespond("http-get", m, AuthenticateToken(tok))
  ELSE IF ~ok THEN HttpRespond("http-get", m, 500)
  ELSE IF GetMeetingById(store, m) = "absent" THEN HttpRespond("http-get", m, 404)
  ELSE HttpRespond("http-get", m, 200)

\* PUT /meetings/:id/end behind authenticateToken; ok = FALSE:
\* updateMeetingStatus throws.
PutMeetingEnd(tok, m, ok) ==
  IF AuthenticateToken(tok) # 0 THEN HttpRespond("http-end", m, AuthenticateToken(tok))
  ELSE HttpEndMeeting(m, ok)

\* Requests to the three routes while connections join the meetings.
NextHttp ==
  \/ \E t \in HttpTokens, m \in Meetings, ok \in BOOLEAN : PostMeetings(t, m, ok)
  \/ \E t \in HttpTokens, m \in Meetings, ok \in BOOLEAN : GetMeeting(t, m, ok)
  \/ \E t \in HttpTokens, m \in Meetings, ok \in BOOLEAN : PutMeetingEnd(t, m, ok)
  \/ \E c \in Conns, m \in Meetings : JoinStart(c, m, MaxPending)
  \/ \E c \in Conns, m \in Meetings, a \in BOOLEAN : JoinResume(c, m, a)

SpecHttp == Init /\ [][NextHttp]_vars

\* ---- the token-based chat service (src/api/services/chatService.ts) ----

\* a user object; some = FALSE is null
User(some, id, name) == [some |-> some, id |-> id, name |-> name]

\* jwt.verify(token, secret): the payload of a token signed with the secret;
\* it throws for every other token.
JwtVerifies(tok) == tok.kind = "signed"

\* The verified payload: {user: {id, name}} or {id, name}.
Decoded(tok) ==
  IF tok.wrapped
  THEN [hasUser |-> TRUE, user |-> User(TRUE, tok.id, tok.name), id |-> 0, name |-> 0]
  ELSE [hasUser |-> FALSE, user |-> User(FALSE, 0, 0), id |-> tok.id, name |-> tok.name]

\* getUserFromToken: null without a token, null when verification throws,
\* otherwise decoded.user || decoded.
GetUserFromToken(tok) ==
  IF tok.kind = "missing" THEN User(FALSE, 0, 0)
  ELSE IF ~JwtVerifies(tok) THEN User(FALSE, 0, 0)
  ELSE LET decoded == Decoded(tok)
       IN IF decoded.hasUser THEN decoded.user
          ELSE User(TRUE, decoded.id, decoded.name)

\* Variant of UserComplete that does not look at the name.
UserHasId(user) == user.some /\ user.id # 0

\* The negation of `!user || !user.id || !user.name`.
UserComplete(user) == user.some /\ user.id # 0 /\ user.name # 0

\* Variant of ListHas that never finds the id.
ListHasNot(list, id) == FALSE

\* participants.some(p => p.id === id)
ListHas(list, id) == \E i \in 1..Len(list) : list[i].id = id

\* The token service's join-meeting up to its first return or await: an
\* unauthenticated caller is answered at once; otherwise the store query is
\* issued and the handler is suspended with the answer.
TokJoinStart(c, m) ==
  LET user == GetUserFromToken(tokenOf[c])
  IN /\ c \in connected
     /\ UNCHANGED <<tokenOf, participantsByMeeting, meetingKeys, userOf, store, connected,
                    connectedUsers, rooms, pendingEnd>>
     /\ IF ~UserComplete(user)
        THEN /\ out' = <<Emit("error", {c}, 0, 0, 0, NoList)>>
             /\ last' = Step("tok-join-rejected", c)
             /\ UNCHANGED pending
        ELSE LET p == [conn |-> c, meetingId |-> m,
                       active |-> MeetingUsable(GetMeetingById(store, m))]
             IN /\ Cardinality(pending) < MaxRacing
                /\ p \notin pending
                /\ pending' = pending \cup {p}
                /\ out' = <<Emit("getMeetingById", {}, m, 0, 0, NoList)>>
                /\ last' = Step("tok-join-start", c)

\* The token service's join-meeting after the await.
TokJoinResume(c, m, active) ==
  LET p == [conn |-> c, meetingId |-> m, active |-> active]
      user == GetUserFromToken(tokenOf[c])
      me == {c} \cap connected
  IN /\ p \in pending
     /\ pending' = pending \ {p}
     /\ last' = Step("tok-join", c)
     /\ UNCHANGED <<tokenOf, userOf, store, connected, connectedUsers, pendingEnd>>
     /\ IF ~active
        THEN /\ out' = <<Emit("error", me, 0, 0, 0, NoList)>>
             /\ UNCHANGED <<rooms, participantsByMeeting, meetingKeys>>
        ELSE LET rooms1 == [rooms EXCEPT ![m] = @ \cup {c}]
                 list0 == IF m \in DOMAIN participantsByMeeting
                          THEN participantsByMeeting[m] ELSE <<>>
                 list1 == IF ListHas(list0, user.id) THEN list0
                          ELSE Append(list0, [id |-> user.id, name |-> user.name])
             IN /\ rooms' = rooms1
                /\ participantsByMeeting' = MapSet(participantsByMeeting, m, list1)
                /\ meetingKeys' = IF m \in DOMAIN participantsByMeeting
                                  THEN meetingKeys ELSE Append(meetingKeys, m)
                /\ out' = <<Emit("new-participant",
                                 RoomSockets(rooms1, connected, m) \ {c},
                                 m, user.id, user.name, NoList),
                            Emit("joined", me, m, 0, 0, NoList)>>

\* participants.findIndex(p => p.id === id), 0 for -1
FindIndex(list, id) ==
  IF ListHas(list, id)
  THEN CHOOSE i \in 1..Len(list) :
         list[i].id = id /\ \A j \in 1..(i - 1) : list[j].id # id
  ELSE 0

\* Variant of Splice that removes nothing.
SpliceNone(list, i) == list

\* participants.splice(i, 1)
Splice(list, i) == [j \in 1..(Len(list) - 1) |-> IF j < i THEN list[j] ELSE list[j + 1]]

\* The token service's leave-meeting: the user is taken off the meeting's
\* list and the group (the leaver still in it) is told; then socket.leave.
TokLeaveMeeting(c, m) ==
  LET user == GetUserFromToken(tokenOf[c])
      list == IF m \in DOMAIN participantsByMeeting THEN participantsByMeeting[m] ELSE <<>>
      index == IF user.some THEN FindIndex(list, user.id) ELSE 0
  IN /\ c \in connected
     /\ rooms' = [rooms EXCEPT ![m] = @ \ {c}]
     /\ last' = Step("tok-leave", c)
     /\ UNCHANGED <<tokenOf, meetingKeys, userOf, store, connected, connectedUsers,
                    pending, pendingEnd>>
     /\ IF user.some /\ m \in DOMAIN participantsByMeeting /\ index # 0
        THEN /\ participantsByMeeting' =
                  [participantsByMeeting EXCEPT ![m] = Splice(list, index)]
             /\ out' = <<Emit("participant-left", RoomSockets(rooms, connected, m),
                              m, user.id, 0, NoList)>>
        ELSE /\ out' = <<>>
             /\ UNCHANGED participantsByMeeting

\* The token service's end-meeting: the meeting's list is dropped from the
\* Map and the group is told.
TokEndMeeting(c, m) ==
  /\ c \in connected
  /\ participantsByMeeting' = MapDelete(participantsByMeeting, m)
  /\ meetingKeys' = SelectSeq(meetingKeys, LAMBDA k : k # m)
  /\ out' = <<Emit("meeting-ended", RoomSockets(rooms, connected, m), m, 0, 0, NoList)>>
  /\ last' = Step("tok-end", c)
  /\ UNCHANGED <<tokenOf, userOf, store, connected, connectedUsers, rooms,
                 pending, pendingEnd>>

\* The disconnect loop over the first n entries of the Map: the lists after
\* the removals.
RECURSIVE DisconnectLists(_, _, _, _)
DisconnectLists(map, keys, user, n) ==
  IF n = 0 THEN map
  ELSE LET prev == DisconnectLists(map, keys, user, n - 1)
           m == keys[n]
           index == IF user.some THEN FindIndex(prev[m], user.id) ELSE 0
       IN IF index # 0 THEN [prev EXCEPT ![m] = Splice(prev[m], index)] ELSE prev

\* The same loop: the 'participant-left' emissions in the order of the
\* entries.
RECURSIVE DisconnectEmits(_, _, _, _, _, _)
DisconnectEmits(map, keys, user, rm, conn, n) ==
  IF n = 0 THEN <<>>
  ELSE LET m == keys[n]
           index == IF user.some THEN FindIndex(map[m], user.id) ELSE 0
       IN DisconnectEmits(map, keys, user, rm, conn, n - 1) \o
          (IF index # 0
           THEN <<Emit("participant-left", RoomSockets(rm, conn, m), m, user.id, 0, NoList)>>
           ELSE <<>>)

\* The token service's disconnect: Socket.IO has taken the socket out of its
\* rooms; the handler takes the token's user off every meeting's list that
\* holds the user id and tells each such meeting's group.
TokDisconnect(c) ==
  LET user == GetUserFromToken(tokenOf[c])
      conn1 == connected \ {c}
      rooms1 == [m \in Meetings |-> rooms[m] \ {c}]
      n == Len(meetingKeys)
  IN /\ c \in connected
     /\ connected' = conn1
     /\ rooms' = rooms1
     /\ participantsByMeeting' = DisconnectLists(participantsByMeeting, meetingKeys, user, n)
     /\ out' = DisconnectEmits(participantsByMeeting, meetingKeys, user, rooms1, conn1, n)
     /\ last' = Step("tok-disconnect", c)
     /\ UNCHANGED <<tokenOf, meetingKeys, userOf, store, connectedUsers, pending, pendingEnd>>

\* Clients of the token service with any of the tokens.
InitToken ==
  /\ userOf = [c \in Conns |-> ((c - 1) % NUsers) + 1]
  /\ tokenOf \in [Conns -> Tokens]
  /\ store = [m \in Meetings |-> "absent"]
  /\ connected = Conns
  /\ connectedUsers = [k \in {} |-> 0]
  /\ rooms = [m \in Meetings |-> {}]
  /\ pending = {}
  /\ pendingEnd = [m \in Meetings |-> 0]
  /\ out = <<>>
  /\ last = Step("init", 0)
  /\ participantsByMeeting = [k \in {} |-> <<>>]
  /\ meetingKeys = <<>>

NextToken ==
  \/ \E c \in Conns, m \in Meetings : TokJoinStart(c, m)
  \/ \E c \in Conns, m \in Meetings, a \in BOOLEAN : TokJoinResume(c, m, a)
  \/ \E c \in Conns, m \in Meetings : TokLeaveMeeting(c, m)
  \/ \E c \in Conns, m \in Meetings : TokEndMeeting(c, m)
  \/ \E c \in Conns : TokDisconnect(c)
  \/ \E m \in Meetings : HttpCreateMeeting(m)

\* The token service: joins, leaves, ends and disconnects with the meetings
\* being created.
SpecToken == InitToken /\ [][NextToken]_vars

\* ---- helpers of the properties ----

\* positions of the emissions named ev in a step's output
EventsOf(s, ev) == {i \in 1..Len(s) : s[i].ev = ev}

\* the meetings whose broadcast group holds connection c
RoomsOf(rm, c) == {m \in Meetings : c \in rm[m]}

\* connection c has a registry entry that records meeting m
Registered(map, c, m) == c \in DOMAIN map /\ map[c].meetingId = m

\* C1 (as claimed): when the last participant of an active meeting leaves
\* (leave-meeting) or disconnects, exactly one updateMeetingStatus(M, 'ended')
\* request is issued for M.
EmptyingIssuesOneUpdate ==
  [][\A c \in Conns, m \in Meetings :
       ( /\ store[m] = "active"
         /\ RoomSockets(rooms, connected, m) = {c}
         /\ (LeaveMeeting(c, m) \/ Disconnect(c)) )
       => Cardinality({i \in EventsOf(out', "updateMeetingStatus") : out'[i].meetingId = m}) = 1
    ]_vars

\* C5 (as claimed): leave-meeting(M) from a connection joined to M has the
\* effect of its disconnect: a 'user-left' with its userId is broadcast to M
\* and its registry entry is removed.
LeaveDisconnectSymmetry ==
  [][\A c \in Conns, m \in Meetings :
       ( /\ c \in rooms[m]
         /\ Registered(connectedUsers, c, m)
         /\ LeaveMeeting(c, m) )
       => /\ \E i \in EventsOf(out', "user-left") :
               out'[i].userId = connectedUsers[c].userId /\ out'[i].meetingId = m
          /\ c \notin DOMAIN connectedUsers'
    ]_vars

\* C6 (as claimed): a send-message to M reaches every current member of M
\* except the sender, and no connection whose registry entry records a
\* different meeting.
MessageIsolation ==
  [][\A c \in Conns, m \in Meetings :
       SendMessage(c, m)
       => \A i \in EventsOf(out', "receive-message") :
            /\ out'[i].to = RoomSockets(rooms, connected, m) \ {c}
            /\ \A x \in out'[i].to :
                 x \in DOMAIN connectedUsers => connectedUsers[x].meetingId = m
    ]_vars

\* C8 (as claimed): a join registers its connection for M (registry entry,
\* broadcast group) only if M is 'active' in the store when the registration
\* takes effect.
JoinOnlyWhenActive ==
  [][\A c \in Conns, m \in Meetings :
       ( /\ JoinResume(c, m, TRUE)
         /\ c \in rooms'[m]
         /\ (rooms' # rooms \/ connectedUsers' # connectedUsers) )
       => store[m] = "active"
    ]_vars

\* C9 (as claimed): a connection is a member of the broadcast group of at
\* most one meeting.
OneRoomPerConnection ==
  \A c \in Conns : Cardinality(RoomsOf(rooms, c)) <= 1

\* C10 (as claimed): when a join-meeting or leave-meeting handler of c has
\* finished, c is in M's broadcast group only if connectedUsers holds an
\* entry for c with meetingId M.
NoPartialJoinState ==
  [][ /\ \A c \in Conns, m \in Meetings, a \in BOOLEAN :
           JoinResume(c, m, a) =>
             (c \in rooms'[m] => Registered(connectedUsers', c, m))
      /\ \A c \in Conns, m \in Meetings :
           LeaveMeeting(c, m) =>
             (c \in rooms'[m] => Registered(connectedUsers', c, m))
    ]_vars

\* every member of m's broadcast group that carries user u has joined m only
OnlyHere(rm, m, u) ==
  \A x \in rm[m] : userOf[x] = u => RoomsOf(rm, x) = {m}

\* the members of m's broadcast group joined m only, each with its own userId
DistinctMembers(rm, m) ==
  /\ \A x \in rm[m] : RoomsOf(rm, x) = {m}
  /\ \A x, y \in rm[m] : x # y => userOf[x] # userOf[y]

\* C2: when joins are all that happens, a join into M by a connection whose
\* userId is already carried into M by another connection (both joined M only)
\* broadcasts no 'user-joined'; and no join broadcasts more than one.
DuplicateUserJoinSilent ==
  [][\A c \in Conns, m \in Meetings :
       JoinResume(c, m, TRUE)
       => /\ Cardinality(EventsOf(out', "user-joined")) <= 1
          /\ ( /\ OnlyHere(rooms', m, userOf[c])
               /\ \E c1 \in rooms[m] \ {c} : userOf[c1] = userOf[c] )
             => EventsOf(out', "user-joined") = {}
    ]_vars

\* a second tab of a user has joined the meeting the first tab is in, silently
DuplicateUserJoinSilentWitness ==
  /\ last.op = "join"
  /\ \E m \in Meetings :
       /\ \E i \in EventsOf(out, "joined") : out[i].meetingId = m /\ out[i].to = {last.conn}
       /\ EventsOf(out, "user-joined") = {}
       /\ OnlyHere(rooms, m, userOf[last.conn])
       /\ \E c1 \in rooms[m] \ {last.conn} : userOf[c1] = userOf[last.conn]

\* C3: when joins are all that happens and the members of M joined M only,
\* with pairwise distinct userIds, the 'participants-list' sent to a joiner
\* holds exactly the userIds joined to M at that instant, once each.
ParticipantsListExact ==
  [][\A c \in Conns, m \in Meetings :
       (JoinResume(c, m, TRUE) /\ DistinctMembers(rooms', m))
       => /\ Cardinality(EventsOf(out', "participants-list")) = 1
          /\ \A i \in EventsOf(out', "participants-list") :
               /\ out'[i].to = {c}
               /\ {out'[i].list[k].userId : k \in DOMAIN out'[i].list}
                    = {userOf[x] : x \in rooms'[m]}
               /\ Cardinality(DOMAIN out'[i].list) = Cardinality(rooms'[m])
    ]_vars

\* the second of two users has joined and was sent the list of both
ParticipantsListExactWitness ==
  /\ last.op = "join"
  /\ \E m \in Meetings :
       /\ DistinctMembers(rooms, m)
       /\ Cardinality(rooms[m]) >= 2
       /\ last.conn \in rooms[m]
       /\ \E i \in EventsOf(out, "participants-list") :
            /\ out[i].meetingId = m
            /\ Cardinality(DOMAIN out[i].list) >= 2

\* C4: under the same conditions, every connection that is a member of M
\* when a new joiner comes in receives exactly one 'user-joined' carrying the
\* joiner's userId.
EachMemberSeesJoinOnce ==
  [][\A c \in Conns, m \in Meetings :
       (JoinResume(c, m, TRUE) /\ c \notin rooms[m] /\ DistinctMembers(rooms', m))
       => \A x \in rooms[m] :
            Cardinality({i \in EventsOf(out', "user-joined") :
                           out'[i].userId = userOf[c] /\ x \in out'[i].to}) = 1
    ]_vars

\* a new user has joined a meeting that had a member, who was told
EachMemberSeesJoinOnceWitness ==
  /\ last.op = "join"
  /\ \E m \in Meetings :
       /\ DistinctMembers(rooms, m)
       /\ \E x \in rooms[m] \ {last.conn} :
            \E i \in EventsOf(out, "user-joined") :
              /\ out[i].meetingId = m
              /\ out[i].userId = userOf[last.conn]
              /\ x \in out[i].to

DuplicateUserJoinRegistered ==
  [][\A c \in Conns, m \in Meetings :
       ( /\ JoinResume(c, m, TRUE)
         /\ \E c1 \in (DOMAIN connectedUsers) \ {c} :
              /\ connectedUsers[c1].userId = userOf[c]
              /\ connectedUsers[c1].meetingId = m )
       => /\ c \in DOMAIN connectedUsers'
          /\ connectedUsers'[c].userId = userOf[c]
          /\ connectedUsers'[c].meetingId = m
          /\ EventsOf(out', "user-joined") = {}
    ]_vars

\* C12 (as claimed): a join-meeting whose payload carries no userId and no
\* name is answered with 'error' to the caller only and changes neither the
\* registry nor any broadcast group, and broadcasts nothing.
MissingIdentityJoinRejected ==
  [][\A c \in Conns, m \in Meetings :
       (JoinResume(c, m, TRUE) /\ userOf[c] \notin Users)
       => /\ out' = <<Emit("error", {c} \cap connected, 0, 0, 0, NoList)>>
          /\ UNCHANGED <<connectedUsers, rooms>>
    ]_vars

\* the connection's handshake token is missing, is not verifiable, or its
\* payload lacks the id or the name
Unauthenticated(c) ==
  \/ tokenOf[c].kind # "signed"
  \/ tokenOf[c].id = 0
  \/ tokenOf[c].name = 0

\* C13: in the token service a join-meeting from a connection whose token is
\* missing, fails verification or decodes to a user without id or name sends
\* 'error' to the caller only, issues no store query (no handler is left
\* suspended), joins no broadcast group, emits no 'new-participant' or
\* 'joined', and leaves participantsByMeeting unchanged.
TokenJoinUnauthenticated ==
  [][\A c \in Conns :
       Unauthenticated(c) =>
         /\ \A m \in Meetings :
              TokJoinStart(c, m) =>
                /\ out' = <<Emit("error", {c}, 0, 0, 0, NoList)>>
                /\ UNCHANGED <<store, rooms, participantsByMeeting, pending>>
         /\ \A p \in pending' : p.conn # c
         /\ \A m \in Meetings : c \notin rooms'[m]
         /\ \A i \in 1..Len(out') :
              /\ out'[i].ev = "getMeetingById" => last'.conn # c
              /\ c \in out'[i].to => out'[i].ev = "error"
    ]_vars

\* An unauthenticated join is rejected while another connection sits in the
\* meeting's group and participant list.
TokenJoinUnauthenticatedWitness ==
  /\ last.op = "tok-join-rejected"
  /\ Unauthenticated(last.conn)
  /\ tokenOf[last.conn].kind = "signed"
  /\ \E m \in DOMAIN participantsByMeeting :
       /\ Len(participantsByMeeting[m]) > 0
       /\ rooms[m] # {}

\* C14 (as claimed): when getMeetingById rejects during join-meeting the
\* caller receives an 'error' event, and the join leaves no registry entry,
\* no group membership and no broadcast.
LookupFailureReported ==
  [][\A c \in Conns, m \in Meetings :
       JoinLookupFails(c, m)
       => /\ \E i \in 1..Len(out') : out'[i].ev = "error" /\ c \in out'[i].to
          /\ \A i \in 1..Len(out') : out'[i].ev = "error"
          /\ UNCHANGED <<connectedUsers, rooms>>
    ]_vars

\* C15: when the status update issued by the lifecycle trigger fails, no
\* further update is requested, nothing is sent to any client, the store
\* keeps the meeting's status, and registry and groups stay as the
\* disconnect left them; the disconnect that issues the request has by then
\* removed its registry entry and broadcast 'user-left' first.
UpdateFailureSwallowed ==
  [][/\ \A m \in Meetings :
          (UpdateApply(m, FALSE) \/ (UpdateApply(m, TRUE) /\ store[m] = "absent"))
          => /\ last'.op = "update-failed"
             /\ out' = <<>>
             /\ store' = store
             /\ pendingEnd' = [pendingEnd EXCEPT ![m] = @ - 1]
             /\ UNCHANGED <<connectedUsers, rooms, connected>>
     /\ \A c \in Conns :
          (Disconnect(c) /\ pendingEnd' # pendingEnd)
          => /\ c \notin DOMAIN connectedUsers'
             /\ Len(out') = 2
             /\ out'[1].ev = "user-left"
             /\ out'[2].ev = "updateMeetingStatus"
             /\ pendingEnd'[out'[2].meetingId] = pendingEnd[out'[2].meetingId] + 1
    ]_vars

\* The update requested by an emptying disconnect has failed and the meeting
\* is still active.
UpdateFailureSwallowedWitness ==
  /\ last.op = "update-failed"
  /\ connected # Conns
  /\ \E m \in Meetings : store[m] = "active" /\ rooms[m] = {} /\ pendingEnd[m] = 0

\* C16 (as claimed): a connection's own events take effect in emission
\* order: a leave-meeting, send-message or disconnect of a connection is
\* never handled while a join-meeting the connection emitted earlier is still
\* suspended at its store query, so the join's effects always come first.
OwnEventsInEmissionOrder ==
  [][\A c \in Conns :
       ( \/ Disconnect(c)
         \/ \E m \in Meetings : LeaveMeeting(c, m) \/ SendMessage(c, m) )
       => \A p \in pending : p.conn # c
    ]_vars

\* C17: an end-meeting event for M delivers 'meeting-ended' to every
\* connection now in M's broadcast group, the sender included, and to nobody
\* else, and changes neither the registry, nor any group, nor the store.
EndMeetingOnlyNotifies ==
  [][\A c \in Conns, m \in Meetings :
       EndMeeting(c, m)
       => /\ Len(out') = 1
          /\ out'[1].ev = "meeting-ended"
          /\ out'[1].to = {x \in connected : x \in rooms[m]}
          /\ UNCHANGED <<connectedUsers, rooms, store, connected, pending, pendingEnd>>
    ]_vars

\* A member of an active meeting's group ended it; every member, the sender
\* too, was notified and the registry still holds the members.
EndMeetingOnlyNotifiesWitness ==
  /\ last.op = "end-meeting"
  /\ \E m \in Meetings :
       /\ store[m] = "active"
       /\ last.conn \in rooms[m]
       /\ Cardinality(rooms[m]) > 1
       /\ Len(out) = 1
       /\ out[1].to = rooms[m]
       /\ \A x \in rooms[m] : Registered(connectedUsers, x, m)

\* C18: handling send-message changes neither the registry, nor any group,
\* nor the store; it relays the message once, to open connections that are in
\* the group at that moment and never to the sender; no other step delivers a
\* 'receive-message', so a connection outside the group at relay time
\* (closed, or joining later) never gets that message.
RelayAtMostOnce ==
  [][/\ \A c \in Conns, m \in Meetings :
          SendMessage(c, m)
          => /\ UNCHANGED <<connectedUsers, rooms, store, connected, pending, pendingEnd>>
             /\ Len(out') = 1
             /\ out'[1].ev = "receive-message"
             /\ \A x \in out'[1].to : x \in connected /\ x \in rooms[m] /\ x # c
             /\ \A x \in Conns :
                  (x \notin connected \/ x \notin rooms[m]) => x \notin out'[1].to
     /\ EventsOf(out', "receive-message") # {} => last'.op = "send-message"
     /\ \A x \in Conns :
          Cardinality({i \in EventsOf(out', "receive-message") : x \in out'[i].to}) <= 1
    ]_vars

\* A member of a group sent a message: the other member received it once
\* and the sender did not.
RelayAtMostOnceWitness ==
  /\ last.op = "send-message"
  /\ Len(out) = 1
  /\ \E m \in Meetings :
       /\ out[1].meetingId = m
       /\ last.conn \in rooms[m]
       /\ out[1].to = rooms[m] \ {last.conn}
       /\ out[1].to # {}
       /\ connectedUsers # NoList

\* the status of the response a route step sent
Responded(s) == Len(out') = 1 /\ out'[1].ev = "http" /\ out'[1].name = s

\* the step is a request with token t to one of the three routes
RouteStep(t, m, ok) ==
  PostMeetings(t, m, ok) \/ GetMeeting(t, m, ok) \/ PutMeetingEnd(t, m, ok)

\* C19 (as claimed): each of the three routes responds 401 whenever the
\* request has no bearer token or a token that fails verification, and 500
\* whenever the MeetingDAO operation it calls throws.
RoutesAnswer401 ==
  [][\A t \in HttpTokens, m \in Meetings, ok \in BOOLEAN :
       /\ (t \in {"none", "forged"} /\ RouteStep(t, m, ok))
            => Responded(401) /\ store' = store
       /\ (t = "signed" /\ ~ok /\ RouteStep(t, m, ok))
            => Responded(500) /\ store' = store
    ]_vars

\* C19 (amended): each of the three routes responds 401 when the request has
\* no bearer token, 403 when its token fails verification, and 500 whenever
\* the MeetingDAO operation it calls throws; none of these changes the store.
RoutesAnswer401Or403 ==
  [][\A t \in HttpTokens, m \in Meetings, ok \in BOOLEAN :
       /\ (t = "none" /\ RouteStep(t, m, ok))
            => Responded(401) /\ store' = store
       /\ (t = "forged" /\ RouteStep(t, m, ok))
            => Responded(403) /\ store' = store
       /\ (t = "signed" /\ ~ok /\ RouteStep(t, m, ok))
            => Responded(500) /\ store' = store
       /\ (t = "signed" /\ store[m] = "absent" /\ PutMeetingEnd(t, m, ok))
            => Responded(500) /\ store' = store
    ]_vars

\* A request to end an active meeting that has a member was turned away
\* with 403 and the meeting is still active.
RoutesAnswer401Or403Witness ==
  /\ last.op = "http-end"
  /\ Len(out) = 1
  /\ out[1].name = 403
  /\ store[out[1].meetingId] = "active"
  /\ rooms[out[1].meetingId] # {}

\* C20 (as claimed): the disconnect handler requests
\* updateMeetingStatus(M, 'ended') only when, after its removal, the registry
\* holds no entry with meetingId M; while another participant of M is still
\* registered the disconnect requests no update.
UpdateOnlyWhenRegistryEmpty ==
  [][\A c \in Conns :
       Disconnect(c)
       => \A i \in EventsOf(out', "updateMeetingStatus") :
            \A k \in DOMAIN connectedUsers' :
              connectedUsers'[k].meetingId # out'[i].meetingId
    ]_vars

\* C21: every 'participants-list' a successful join of a connection with
\* userId u sends contains an element with userId u, whether the join
\* registered the connection or found the user already in the meeting, and it
\* is sent before the 'joined' acknowledgement of that join.
ListHoldsCaller ==
  [][\A c \in Conns, m \in Meetings :
       JoinResume(c, m, TRUE)
       => /\ Cardinality(EventsOf(out', "participants-list")) = 1
          /\ Cardinality(EventsOf(out', "joined")) = 1
          /\ \A i \in EventsOf(out', "participants-list") :
               /\ \E k \in DOMAIN out'[i].list : out'[i].list[k].userId = userOf[c]
               /\ \A j \in EventsOf(out', "joined") : i < j
    ]_vars

\* Both branches have run: the last join found its user already in the
\* meeting (no registration, no 'user-joined') and its list holds the user
\* through the other connection's entry.
ListHoldsCallerWitness ==
  /\ last.op = "join"
  /\ last.conn \notin DOMAIN connectedUsers
  /\ EventsOf(out, "user-joined") = {}
  /\ \E i \in EventsOf(out, "participants-list") :
       \E k \in DOMAIN out[i].list :
         /\ k # last.conn
         /\ out[i].list[k].userId = userOf[last.conn]

\* C22: the disconnect of a registered connection removes exactly its own
\* registry entry, keeps every other entry as it was and broadcasts one
\* 'user-left' with the recorded userId to the recorded meeting's group only;
\* the disconnect of an unregistered connection changes neither registry nor
\* store, broadcasts nothing and requests no status update.
DisconnectRemovesOwnEntry ==
  [][\A c \in Conns :
       Disconnect(c)
       => IF c \in DOMAIN connectedUsers
          THEN /\ DOMAIN connectedUsers' = (DOMAIN connectedUsers) \ {c}
               /\ \A k \in DOMAIN connectedUsers' : connectedUsers'[k] = connectedUsers[k]
               /\ Cardinality(EventsOf(out', "user-left")) = 1
               /\ \A i \in EventsOf(out', "user-left") :
                    /\ out'[i].userId = connectedUsers[c].userId
                    /\ out'[i].meetingId = connectedUsers[c].meetingId
                    /\ out'[i].to = {x \in connected' : x \in rooms'[connectedUsers[c].meetingId]}
               /\ store' = store
          ELSE /\ out' = <<>>
               /\ UNCHANGED <<connectedUsers, store, pendingEnd>>
    ]_vars

\* A registered connection disconnected: the remaining member was told and
\* its own entry is still there.
DisconnectRemovesOwnEntryWitness ==
  /\ last.op = "disconnect"
  /\ \E i \in EventsOf(out, "user-left") :
       /\ out[i].to # {}
       /\ \A x \in out[i].to : Registered(connectedUsers, x, out[i].meetingId)

\* the user id of connection c's verified token is on meeting m's list
Listed(c, m) ==
  /\ tokenOf[c].kind = "signed"
  /\ m \in DOMAIN participantsByMeeting
  /\ \E i \in 1..Len(participantsByMeeting[m]) :
       participantsByMeeting[m][i].id = tokenOf[c].id

\* C23: in the token service leave-meeting(M) by a connection whose token
\* user u is on M's list takes u off the list (the other entries stay, in
\* order) and broadcasts exactly one 'participant-left' with u's id to M's
\* group; when u is not listed or the token is invalid nothing is broadcast
\* and the list is unchanged; either way the connection leaves M's group and
\* no other group.
TokenLeaveRemovesUser ==
  [][\A c \in Conns, m \in Meetings :
       TokLeaveMeeting(c, m)
       => /\ rooms' = [rooms EXCEPT ![m] = @ \ {c}]
          /\ IF Listed(c, m)
             THEN /\ participantsByMeeting' =
                       [participantsByMeeting EXCEPT ![m] =
                          SelectSeq(@, LAMBDA p : p.id # tokenOf[c].id)]
                  /\ Len(participantsByMeeting'[m]) = Len(participantsByMeeting[m]) - 1
                  /\ Len(out') = 1
                  /\ out'[1].ev = "participant-left"
                  /\ out'[1].userId = tokenOf[c].id
                  /\ out'[1].meetingId = m
                  /\ out'[1].to = {x \in connected : x \in rooms[m]}
             ELSE /\ out' = <<>>
                  /\ participantsByMeeting' = participantsByMeeting
    ]_vars

\* A listed user left a meeting that has another listed member in its group:
\* the other member was told and is still listed.
TokenLeaveRemovesUserWitness ==
  /\ last.op = "tok-leave"
  /\ Len(out) = 1
  /\ out[1].ev = "participant-left"
  /\ \E x \in out[1].to :
       /\ x # last.conn
       /\ Listed(x, out[1].meetingId)
       /\ tokenOf[x].id # out[1].userId

\* C24 (as claimed): in the token service a join-meeting by a user who is
\* already on M's list sends no further 'new-participant' to the members of
\* M's group.
IdempotentJoinSilent ==
  [][\A c \in Conns, m \in Meetings :
       (TokJoinResume(c, m, TRUE) /\ Listed(c, m))
       => \A i \in EventsOf(out', "new-participant") : out'[i].to = {}
    ]_vars

\* C25: a send-message with meetingId M from a connection that has no
\* registry entry for M is relayed all the same, as 'receive-message' to
\* every open connection of M's group except the sender, and the sender gets
\* no 'error'.
UnregisteredSenderRelayed ==
  [][\A c \in Conns, m \in Meetings :
       (SendMessage(c, m) /\ ~Registered(connectedUsers, c, m))
       => /\ EventsOf(out', "error") = {}
          /\ \E i \in EventsOf(out', "receive-message") :
               /\ out'[i].meetingId = m
               /\ \A x \in connected \ {c} : x \in rooms[m] => x \in out'[i].to
          /\ \A i \in 1..Len(out') : c \notin out'[i].to
    ]_vars

\* A connection that is neither registered nor in any group sent a message
\* to a meeting and its member received it.
UnregisteredSenderRelayedWitness ==
  /\ last.op = "send-message"
  /\ last.conn \notin DOMAIN connectedUsers
  /\ RoomsOf(rooms, last.conn) = {}
  /\ \E i \in EventsOf(out, "receive-message") :
       \E x \in out[i].to : Registered(connectedUsers, x, out[i].meetingId)

\* C26 (as claimed): once the disconnect of a connection has been handled the
\* registry never again holds an entry for it, under every interleaving,
\* also when the disconnect is handled while the connection's own
\* join-meeting still awaits the store query.
NoEntryAfterDisconnect ==
  \A c \in DOMAIN connectedUsers : c \in connected

\* C27 (as claimed): 'user-left' with userId u is broadcast to meeting M only
\* when, after the removal, no open connection that joined M with userId u is
\* still in M's group.
UserLeftOnlyWhenGone ==
  [][\A i \in EventsOf(out', "user-left") :
       \A x \in connected' :
         x \in rooms'[out'[i].meetingId] => userOf[x] # out'[i].userId
    ]_vars

\* C28: over every sequence of operations a stored meeting's status changes
\* only from 'active' to 'ended' (a meeting comes into the store as
\* 'active'): an ended meeting is never active again and a stored meeting
\* never disappears.
StatusOnlyForward ==
  [][\A m \in Meetings :
       /\ store[m] = "ended" => store'[m] = "ended"
       /\ store[m] = "active" => store'[m] \in {"active", "ended"}
       /\ store[m] = "absent" => store'[m] \in {"absent", "active"}
    ]_vars

\* The lifecycle trigger has ended one meeting after another had been
\* ended, too.
StatusOnlyForwardWitness ==
  /\ last.op = "update-done"
  /\ \A m \in Meetings : store[m] = "ended"
  /\ connected # Conns

\* C29: in the token service no meeting's participant list ever holds two
\* entries with the same user id, whatever joins, leaves, ends and
\* disconnects have happened.
NoDuplicateParticipants ==
  \A m \in DOMAIN participantsByMeeting :
    \A i, j \in 1..Len(participantsByMeeting[m]) :
      participantsByMeeting[m][i].id = participantsByMeeting[m][j].id => i = j

\* Two connections of one user have both joined a meeting and the user is
\* listed once, next to nobody else.
NoDuplicateParticipantsWitness ==
  /\ last.op = "tok-join"
  /\ \E m \in DOMAIN participantsByMeeting :
       /\ Len(participantsByMeeting[m]) = 1
       /\ \E c1, c2 \in rooms[m] :
            /\ c1 # c2
            /\ tokenOf[c1].kind = "signed" /\ tokenOf[c2].kind = "signed"
            /\ tokenOf[c1].id = tokenOf[c2].id

\* every open connection in meeting m's group has its token user on m's list
JoinedUsersListed(m) == \A c \in connected : c \in rooms[m] => Listed(c, m)

\* C30 (as claimed): in the token service, as long as no end-meeting for M
\* is handled, the user of every connection that has joined M and has
\* neither left M nor disconnected is on M's list, also after another
\* connection of the same user disconnects or leaves M.
JoinedUserStaysListed ==
  [][\A m \in Meetings :
       (JoinedUsersListed(m) /\ ~(\E c \in Conns : TokEndMeeting(c, m)))
       => JoinedUsersListed(m)'
    ]_vars

TypeOK ==
  /\ store \in [Meetings -> {"absent", "active", "ended"}]
  /\ connected \subseteq Conns
  /\ DOMAIN connectedUsers \subseteq Conns
  /\ rooms \in [Meetings -> SUBSET Conns]
  /\ userOf \in [Conns -> Identities]
  /\ pendingEnd \in [Meetings -> 0..MaxInflight]
====
